---- MODULE Spec2Model ----
(***************************************************************************)
(* Model of tbgclient/forum.py: the field validator check_fields, the      *)
(* method dispatcher _Indexed.update / _Indexed.submit, and the handlers   *)
(* of the entity variants User, Topic and Message.                         *)
(*                                                                         *)
(* One entity instance is followed through construction, dispatcher calls  *)
(* and direct handler calls.  Every call is one action; what the call did  *)
(* (requests issued, handler invoked, exception raised, value returned) is *)
(* recorded in the state next to the instance's fields.                    *)
(***************************************************************************)
EXTENDS Integers, Sequences, FiniteSets, TLC

(* ---------------------------------------------------------------------- *)
(* Bounds                                                                  *)
(* ---------------------------------------------------------------------- *)
MaxMid == 2
MaxPage == 2

(* ---------------------------------------------------------------------- *)
(* Python values                                                           *)
(* ---------------------------------------------------------------------- *)
None == [t |-> "None"]
Absent == [t |-> "absent"]
SelfRef == [t |-> "self"]
PyInt(n) == [t |-> "int", v |-> n]
PyStr(s) == [t |-> "str", v |-> s]
Dict(d) == [t |-> "dict", v |-> d]
List(s) == [t |-> "list", v |-> s]
EmptyKw == [k \in {} |-> None]

(* ---------------------------------------------------------------------- *)
(* Declared fields of the variants (dataclasses.fields)                    *)
(* ---------------------------------------------------------------------- *)
UserFields ==
    {"uid", "name", "avatar", "group", "posts", "signature", "email",
     "blurb", "location", "real_name", "social", "website", "gender"}

TopicFields == {"tid", "topic_name", "pages"}

MessageFields ==
    {"tid", "mid", "subject", "date", "edited", "content", "user", "icon"}

Kinds == {"User", "Topic", "Message"}

fields(k) ==
    CASE k = "User" -> UserFields
      [] k = "Topic" -> TopicFields
      [] k = "Message" -> MessageFields

\* update_* / submit_* / other methods a variant defines (what dir() shows)
dir(k) ==
    CASE k = "User" -> {}
      [] k = "Topic" -> {"update_get", "get_page", "get_size"}
      [] k = "Message" ->
            {"submit_post", "update_get", "submit_edit", "update_quotefast"}

default_update_method == "get"
default_submit_method == "post"

\* attributes that are not dataclass fields
DynAttrs == {"total_pages", "name"}
NoDyn == [a \in DynAttrs |-> Absent]

(* ---------------------------------------------------------------------- *)
(* Constructors                                                            *)
(* ---------------------------------------------------------------------- *)
\* the dataclass-generated __init__: keyword given, else the default None
DataInit(fs, kw) == [f \in fs |-> IF f \in DOMAIN kw THEN kw[f] ELSE None]

User(kw) == [t |-> "User", v |-> DataInit(UserFields, kw)]

PostIcons(s) == [t |-> "PostIcons", v |-> s]

Message_post_init(m) ==
    [m EXCEPT !["user"] = IF @.t = "dict" THEN User(@.v) ELSE @,
              !["icon"] = IF @.t = "str" THEN PostIcons(@.v) ELSE @]

Message(kw) == Message_post_init(DataInit(MessageFields, kw))

Topic_post_init(d) == [d EXCEPT !["total_pages"] = PyInt(0)]

(* ---------------------------------------------------------------------- *)
(* check_fields                                                            *)
(* ---------------------------------------------------------------------- *)
\* check_fields stopping at the first absent field
RECURSIVE check_fields_First(_, _)
check_fields_First(flds, names) ==
    IF names = <<>> THEN <<>>
    ELSE IF flds[Head(names)] = None THEN <<Head(names)>>
    ELSE check_fields_First(flds, Tail(names))

\* the list "missing" built by the loop; IncompleteError is raised iff it
\* is not empty
check_fields(flds, names) == SelectSeq(names, LAMBDA f : flds[f] = None)

(* ---------------------------------------------------------------------- *)
(* External collaborators: transport (api) and parsers                     *)
(*                                                                         *)
(* A response is modelled by what the parsers make of its text: whether    *)
(* the body encodes a forum-level error, whether it carries the HTML root  *)
(* marker, the page parse_page extracts from it and the record             *)
(* parse_quotefast extracts from it.                                       *)
(* ---------------------------------------------------------------------- *)
TOPIC_PER_PAGE == 25

Request(fn, args) == [fn |-> fn, args |-> args]

\* check_errors(text, response) raises RequestError iff this is TRUE
check_errors(text) == text.error

parse_page(text) == text.page

parse_quotefast(text) == text.quote

HasHtmlMarker(text) == text.html

Digit(d) ==
    CASE d = 0 -> "0" [] d = 1 -> "1" [] d = 2 -> "2" [] d = 3 -> "3"
      [] d = 4 -> "4" [] d = 5 -> "5" [] d = 6 -> "6" [] d = 7 -> "7"
      [] d = 8 -> "8" [] d = 9 -> "9"

RECURSIVE str(_)
str(n) == IF n < 10 THEN Digit(n) ELSE str(n \div 10) \o Digit(n % 10)

(* ---------------------------------------------------------------------- *)
(* Outcome of one call                                                     *)
(* ---------------------------------------------------------------------- *)
Result(outcome, flds, dyn, requests, missing, response, warned, ret) ==
    [outcome |-> outcome, flds |-> flds, dyn |-> dyn, requests |-> requests,
     missing |-> missing, response |-> response, warned |-> warned,
     ret |-> ret]

Incomplete(flds, dyn, missing) ==
    Result("IncompleteError", flds, dyn, <<>>, missing, None, FALSE, None)

Last(s) == s[Len(s)]

RECURSIVE Map(_, _)
Map(F(_), s) == IF s = <<>> THEN <<>> ELSE <<F(Head(s))>> \o Map(F, Tail(s))

(* ---------------------------------------------------------------------- *)
(* Topic handlers                                                          *)
(* ---------------------------------------------------------------------- *)
Topic_update_get(flds, dyn, res) ==
    LET missing == check_fields(flds, <<"tid">>)
        reqs == <<Request("get_topic_page", <<flds["tid"], PyInt(0)>>)>>
        parsed == parse_page(res)
    IN  IF missing # <<>> THEN Incomplete(flds, dyn, missing)
        ELSE IF parsed.hierarchy = <<>>
        THEN Result("IndexError", flds, dyn, reqs, <<>>, None, FALSE, None)
        ELSE Result("ok",
                    [flds EXCEPT !["topic_name"] = PyStr(Last(parsed.hierarchy)[1]),
                                 !["pages"] = PyInt(parsed.total_pages)],
                    dyn, reqs, <<>>, None, FALSE, SelfRef)

\* get_page raising on a page-number mismatch instead of warning
Topic_get_page_Strict(flds, dyn, page, res) ==
    LET missing == check_fields(flds, <<"tid">>)
        reqs == <<Request("get_topic_page",
                          <<flds["tid"], PyInt((page - 1) * TOPIC_PER_PAGE)>>)>>
        parsed == parse_page(res)
    IN  IF missing # <<>> THEN Incomplete(flds, dyn, missing)
        ELSE IF page # parsed.current_page
        THEN Result("RequestError", flds, dyn, reqs, <<>>, res, FALSE, None)
        ELSE IF parsed.hierarchy = <<>>
        THEN Result("IndexError", flds, dyn, reqs, <<>>, None, FALSE, None)
        ELSE Result("ok",
                    [flds EXCEPT !["pages"] = PyInt(parsed.total_pages)],
                    [dyn EXCEPT !["name"] = PyStr(Last(parsed.hierarchy)[1])],
                    reqs, <<>>, None, FALSE,
                    List(Map(Message, parsed.contents)))

Topic_get_page(flds, dyn, page, res) ==
    LET missing == check_fields(flds, <<"tid">>)
        reqs == <<Request("get_topic_page",
                          <<flds["tid"], PyInt((page - 1) * TOPIC_PER_PAGE)>>)>>
        parsed == parse_page(res)
        warned == page # parsed.current_page
    IN  IF missing # <<>> THEN Incomplete(flds, dyn, missing)
        ELSE IF parsed.hierarchy = <<>>
        THEN Result("IndexError", flds, dyn, reqs, <<>>, None, warned, None)
        ELSE Result("ok",
                    [flds EXCEPT !["pages"] = PyInt(parsed.total_pages)],
                    [dyn EXCEPT !["name"] = PyStr(Last(parsed.hierarchy)[1])],
                    reqs, <<>>, None, warned,
                    List(Map(Message, parsed.contents)))

Topic_get_size(flds) == flds["pages"]

(* ---------------------------------------------------------------------- *)
(* Message handlers                                                        *)
(* ---------------------------------------------------------------------- *)
Message_submit_post(flds, dyn, res) ==
    LET missing == check_fields(flds, <<"tid">>)
        reqs == <<Request("post_message",
                          <<flds["tid"], flds["content"], flds["subject"],
                            flds["icon"]>>)>>
    IN  IF missing # <<>> THEN Incomplete(flds, dyn, missing)
        ELSE IF check_errors(res)
        THEN Result("RequestError", flds, dyn, reqs, <<>>, res, FALSE, None)
        ELSE Result("ok", flds, dyn, reqs, <<>>, None, FALSE, SelfRef)

\* update_get taking the last matching record
Message_update_get_Last(flds, dyn, res) ==
    LET missing == check_fields(flds, <<"mid">>)
        reqs == <<Request("get_message_page", <<flds["mid"]>>)>>
        parsed == parse_page(res)
        post == SelectSeq(parsed.contents, LAMBDA x : x["mid"] = flds["mid"])
    IN  IF missing # <<>> THEN Incomplete(flds, dyn, missing)
        ELSE IF check_errors(res)
        THEN Result("RequestError", flds, dyn, reqs, <<>>, res, FALSE, None)
        ELSE IF post = <<>>
        THEN Result("RequestError", flds, dyn, reqs, <<>>, res, FALSE, None)
        ELSE Result("ok", Message(Last(post)), dyn, reqs, <<>>, None, FALSE,
                    SelfRef)

Message_update_get(flds, dyn, res) ==
    LET missing == check_fields(flds, <<"mid">>)
        reqs == <<Request("get_message_page", <<flds["mid"]>>)>>
        parsed == parse_page(res)
        post == SelectSeq(parsed.contents, LAMBDA x : x["mid"] = flds["mid"])
    IN  IF missing # <<>> THEN Incomplete(flds, dyn, missing)
        ELSE IF check_errors(res)
        THEN Result("RequestError", flds, dyn, reqs, <<>>, res, FALSE, None)
        ELSE IF post = <<>>
        THEN Result("RequestError", flds, dyn, reqs, <<>>, res, FALSE, None)
        ELSE Result("ok", Message(Head(post)), dyn, reqs, <<>>, None, FALSE,
                    SelfRef)

\* submit_edit validating mid only
Message_submit_edit_CheckMidOnly(flds, dyn, reason, res) ==
    LET missing == check_fields(flds, <<"mid">>)
        reqs == <<Request("edit_message",
                          <<flds["mid"], flds["tid"], flds["content"],
                            flds["subject"], flds["icon"], reason>>)>>
    IN  IF missing # <<>> THEN Incomplete(flds, dyn, missing)
        ELSE IF check_errors(res)
        THEN Result("RequestError", flds, dyn, reqs, <<>>, res, FALSE, None)
        ELSE Result("ok", flds, dyn, reqs, <<>>, None, FALSE, SelfRef)

Message_submit_edit(flds, dyn, reason, res) ==
    LET missing == check_fields(flds, <<"mid", "tid">>)
        reqs == <<Request("edit_message",
                          <<flds["mid"], flds["tid"], flds["content"],
                            flds["subject"], flds["icon"], reason>>)>>
    IN  IF missing # <<>> THEN Incomplete(flds, dyn, missing)
        ELSE IF check_errors(res)
        THEN Result("RequestError", flds, dyn, reqs, <<>>, res, FALSE, None)
        ELSE Result("ok", flds, dyn, reqs, <<>>, None, FALSE, SelfRef)

\* update_quotefast assigning the parsed record without __post_init__
Message_update_quotefast_NoPostInit(flds, dyn, res) ==
    LET missing == check_fields(flds, <<"mid">>)
        params == [quote |-> PyStr(str(flds["mid"].v)), xml |-> None,
                   modify |-> None]
        reqs == <<Request("do_action", <<PyStr("quotefast"), Dict(params)>>)>>
    IN  IF missing # <<>> THEN Incomplete(flds, dyn, missing)
        ELSE IF HasHtmlMarker(res) /\ check_errors(res)
        THEN Result("RequestError", flds, dyn, reqs, <<>>, res, FALSE, None)
        ELSE Result("ok", DataInit(MessageFields, parse_quotefast(res)), dyn,
                    reqs, <<>>, None, FALSE, SelfRef)

Message_update_quotefast(flds, dyn, res) ==
    LET missing == check_fields(flds, <<"mid">>)
        params == [quote |-> PyStr(str(flds["mid"].v)), xml |-> None,
                   modify |-> None]
        reqs == <<Request("do_action", <<PyStr("quotefast"), Dict(params)>>)>>
    IN  IF missing # <<>> THEN Incomplete(flds, dyn, missing)
        ELSE IF HasHtmlMarker(res) /\ check_errors(res)
        THEN Result("RequestError", flds, dyn, reqs, <<>>, res, FALSE, None)
        ELSE Result("ok", Message(parse_quotefast(res)), dyn, reqs, <<>>,
                    None, FALSE, SelfRef)

(* ---------------------------------------------------------------------- *)
(* Method dispatcher (_Indexed.update / _Indexed.submit)                   *)
(* ---------------------------------------------------------------------- *)
NoMethod == "<None>"

\* number of parameters a handler accepts besides the bound self
Arity(name) == IF name \in {"submit_edit", "get_page"} THEN 1 ELSE 0

\* calling the bound method "name" of a k instance with positional
\* arguments posargs and keyword arguments kwargs
Invoke(k, name, flds, dyn, posargs, res) ==
    IF Len(posargs) > Arity(name)
    THEN Result("TypeError", flds, dyn, <<>>, <<>>, None, FALSE, None)
    ELSE CASE k = "Topic" /\ name = "update_get" ->
                Topic_update_get(flds, dyn, res)
           [] k = "Message" /\ name = "update_get" ->
                Message_update_get(flds, dyn, res)
           [] k = "Message" /\ name = "update_quotefast" ->
                Message_update_quotefast(flds, dyn, res)
           [] k = "Message" /\ name = "submit_post" ->
                Message_submit_post(flds, dyn, res)
           [] k = "Message" /\ name = "submit_edit" ->
                Message_submit_edit(flds, dyn,
                    IF posargs = <<>> THEN PyStr("") ELSE posargs[1], res)

\* the loop over kwargs.items(): declared fields are set on the instance
ApplyOverrides(k, flds, kwargs) ==
    [f \in fields(k) |-> IF f \in DOMAIN kwargs THEN kwargs[f] ELSE flds[f]]

excess_kwargs(k, kwargs) ==
    [key \in (DOMAIN kwargs) \ fields(k) |-> kwargs[key]]

NoInvocation == [name |-> "<none>", args |-> <<>>, kwargs |-> EmptyKw]

\* dispatcher that ignores an unknown method name
Dispatch_SilentIgnore(prefix, default, k, flds, dyn, method, kwargs, res) ==
    LET m == IF method = NoMethod THEN default ELSE method
        attrs == dir(k)
        method_name == prefix \o m
        flds1 == ApplyOverrides(k, flds, kwargs)
        excess == excess_kwargs(k, kwargs)
        fail(e) == Result(e, flds1, dyn, <<>>, <<>>, None, FALSE, None)
    IN  IF method_name \in attrs
        THEN IF DOMAIN excess # {}
             THEN [r |-> fail("TypeError"), invoked |-> NoInvocation]
             ELSE [r |-> Invoke(k, method_name, flds1, dyn, <<SelfRef>>, res),
                   invoked |-> [name |-> method_name, args |-> <<SelfRef>>,
                                kwargs |-> EmptyKw]]
        ELSE [r |-> Result("ok", flds1, dyn, <<>>, <<>>, None, FALSE, SelfRef),
              invoked |-> NoInvocation]

\* dispatcher that looks the handler up before it applies the overrides
Dispatch_OverridesAfterLookup(prefix, default, k, flds, dyn, method, kwargs, res) ==
    LET m == IF method = NoMethod THEN default ELSE method
        attrs == dir(k)
        method_name == prefix \o m
        flds1 == ApplyOverrides(k, flds, kwargs)
        excess == excess_kwargs(k, kwargs)
        fail(e, fl) == Result(e, fl, dyn, <<>>, <<>>, None, FALSE, None)
    IN  IF method_name \in attrs
        THEN IF DOMAIN excess # {}
             THEN [r |-> fail("TypeError", flds1), invoked |-> NoInvocation]
             ELSE [r |-> Invoke(k, method_name, flds1, dyn, <<SelfRef>>, res),
                   invoked |-> [name |-> method_name, args |-> <<SelfRef>>,
                                kwargs |-> EmptyKw]]
        ELSE [r |-> fail("NotImplementedError", flds), invoked |-> NoInvocation]

\* common body of update and submit; the result carries, besides the
\* handler's outcome, the invocation the dispatcher made
Dispatch(prefix, default, k, flds, dyn, method, kwargs, res) ==
    LET m == IF method = NoMethod THEN default ELSE method
        attrs == dir(k)
        method_name == prefix \o m
        flds1 == ApplyOverrides(k, flds, kwargs)
        excess == excess_kwargs(k, kwargs)
        fail(e) == Result(e, flds1, dyn, <<>>, <<>>, None, FALSE, None)
    IN  IF method_name \in attrs
        THEN IF DOMAIN excess # {}
             \* getattr(self, method_name, **excess_kwargs): getattr takes
             \* no keyword arguments
             THEN [r |-> fail("TypeError"), invoked |-> NoInvocation]
             \* getattr(self, method_name)(self): the bound method is called
             \* with the instance as its one positional argument
             ELSE [r |-> Invoke(k, method_name, flds1, dyn, <<SelfRef>>, res),
                   invoked |-> [name |-> method_name, args |-> <<SelfRef>>,
                                kwargs |-> EmptyKw]]
        ELSE [r |-> fail("NotImplementedError"), invoked |-> NoInvocation]

update(k, flds, dyn, method, kwargs, res) ==
    Dispatch("update_", default_update_method, k, flds, dyn, method, kwargs, res)

submit(k, flds, dyn, method, kwargs, res) ==
    Dispatch("submit_", default_submit_method, k, flds, dyn, method, kwargs, res)

(* ---------------------------------------------------------------------- *)
(* Inputs: keyword data, overrides, responses                              *)
(* ---------------------------------------------------------------------- *)
UserData1 == [uid |-> PyInt(1), name |-> PyStr("alice")]

RecA(m) ==
    [mid |-> PyInt(m), tid |-> PyInt(42), content |-> PyStr("a"),
     user |-> Dict(UserData1), icon |-> PyStr("xx")]

RecB(m) == [mid |-> PyInt(m), content |-> PyStr("b")]

Mids == 1..MaxMid
PageNumbers == 1..MaxPage

Recs == {RecA(m) : m \in Mids} \cup {RecB(1)}

ContentsSet ==
    {<<>>} \cup {<<r>> : r \in Recs}
           \cup {<<RecB(1), RecA(m)>> : m \in Mids}
           \cup {<<RecA(1), RecB(1)>>}

Hierarchy2 == << <<"General", "/g">>, <<"My Topic", "/t/42">> >>
HierarchyErr == << <<"An Error Has Occurred!", "/">> >>

Page(h, c, n, cs) ==
    [hierarchy |-> h, current_page |-> c, total_pages |-> n, contents |-> cs]

Pages == {Page(Hierarchy2, c, 5, cs) : c \in PageNumbers, cs \in ContentsSet}
ErrPages == {Page(h, 1, 1, <<>>) : h \in {<<>>, HierarchyErr}}

Body(error, html, page, quote) ==
    [error |-> error, html |-> html, page |-> page, quote |-> quote]

PageBodies == {Body(FALSE, TRUE, p, EmptyKw) : p \in Pages}
ErrorBodies == {Body(TRUE, TRUE, p, EmptyKw) : p \in ErrPages}
PostBodies == {Body(FALSE, TRUE, Page(Hierarchy2, 1, 5, <<>>), EmptyKw)}
Quotes == {[content |-> PyStr("[b]a[/b]")], RecA(1)}
QuoteBodies ==
    {Body(FALSE, h, Page(<<>>, 1, 1, <<>>), q) : h \in BOOLEAN, q \in Quotes}

ResponsesFor(name) ==
    CASE name \in {"update_get", "get_page"} -> PageBodies \cup ErrorBodies
      [] name \in {"submit_post", "submit_edit"} -> PostBodies \cup ErrorBodies
      [] name = "update_quotefast" -> QuoteBodies \cup ErrorBodies
      [] OTHER -> ErrorBodies

ProbeBody == Body(TRUE, TRUE, Page(<<>>, 1, 1, <<>>), EmptyKw)

\* the responses a call can receive: none when it issues no request
ResponseChoices(F(_), name) ==
    IF F(ProbeBody).requests = <<>> THEN {None} ELSE ResponsesFor(name)

ConstructInputs(k) ==
    CASE k = "User" -> {EmptyKw, [name |-> PyStr("alice")]}
      [] k = "Topic" -> {EmptyKw, [tid |-> PyInt(42)]}
      [] k = "Message" ->
            {EmptyKw, [tid |-> PyInt(42)]}
            \cup {[mid |-> PyInt(m)] : m \in Mids}
            \cup {[mid |-> PyInt(1), tid |-> PyInt(42)],
                  [mid |-> PyInt(1), user |-> Dict(UserData1),
                   icon |-> PyStr("xx")]}

Methods == {NoMethod, "get", "post", "edit", "quotefast", "page", "nope"}

Overrides ==
    {EmptyKw,
     [tid |-> PyInt(42)],
     [mid |-> None],
     [extra |-> PyStr("x")],
     [extra |-> PyStr("x"), name |-> PyStr("y")],
     [reason |-> PyStr("typo")],
     [user |-> Dict(UserData1), mid |-> PyInt(1)]}

Reasons == {PyStr(""), PyStr("typo")}

KeyFields(k) ==
    CASE k = "User" -> {"uid", "name"}
      [] k = "Topic" -> {"tid", "pages"}
      [] k = "Message" -> {"tid", "mid", "content"}

FieldNames(k) ==
    {<<>>} \cup {<<a>> : a \in KeyFields(k)}
           \cup {<<a, b>> : a \in KeyFields(k), b \in KeyFields(k)}

(* ---------------------------------------------------------------------- *)
(* State                                                                   *)
(* ---------------------------------------------------------------------- *)
VARIABLES
    kind,      \* variant of the instance
    inst,      \* its declared fields
    dyn,       \* its other attributes
    preInst,   \* inst before the last call
    preDyn,    \* dyn before the last call
    call,      \* the last call: operation and inputs
    out        \* what the last call did

vars == <<kind, inst, dyn, preInst, preDyn, call, out>>

Call(op, method, kwargs, args, res) ==
    [op |-> op, method |-> method, kwargs |-> kwargs, args |-> args,
     res |-> res]

Out(r, invoked) ==
    [outcome |-> r.outcome, requests |-> r.requests, missing |-> r.missing,
     response |-> r.response, warned |-> r.warned, ret |-> r.ret,
     invoked |-> invoked]

New(k, kw) ==
    CASE k = "User" -> User(kw).v
      [] k = "Topic" -> DataInit(TopicFields, kw)
      [] k = "Message" -> Message(kw)

NewDyn(k) == IF k = "Topic" THEN Topic_post_init(NoDyn) ELSE NoDyn

Constructed(k, kw) ==
    /\ kind' = k
    /\ inst' = New(k, kw)
    /\ dyn' = NewDyn(k)
    /\ preInst' = EmptyKw
    /\ preDyn' = NoDyn
    /\ call' = Call("construct", NoMethod, kw, <<>>, None)
    /\ out' = Out(Result("ok", EmptyKw, NoDyn, <<>>, <<>>, None, FALSE, None),
                  NoInvocation)

Init ==
    \E k \in Kinds : \E kw \in ConstructInputs(k) :
        /\ kind = k
        /\ inst = New(k, kw)
        /\ dyn = NewDyn(k)
        /\ preInst = EmptyKw
        /\ preDyn = NoDyn
        /\ call = Call("construct", NoMethod, kw, <<>>, None)
        /\ out = Out(Result("ok", EmptyKw, NoDyn, <<>>, <<>>, None, FALSE, None),
                     NoInvocation)

\* the state after a call on the instance with result r
Finish(op, method, kwargs, args, res, r, invoked) ==
    /\ kind' = kind
    /\ inst' = r.flds
    /\ dyn' = r.dyn
    /\ preInst' = inst
    /\ preDyn' = dyn
    /\ call' = Call(op, method, kwargs, args,
                    IF r.requests = <<>> THEN None ELSE res)
    /\ out' = Out(r, invoked)

Direct(name, args) == [name |-> name, args |-> args, kwargs |-> EmptyKw]

(* ---------------------------------------------------------------------- *)
(* Actions                                                                 *)
(* ---------------------------------------------------------------------- *)
Construct == \E k \in Kinds : \E kw \in ConstructInputs(k) : Constructed(k, kw)

CallCheckFields ==
    \E names \in FieldNames(kind) :
        LET missing == check_fields(inst, names)
        IN  Finish("check_fields", NoMethod, EmptyKw, names, None,
                   IF missing # <<>> THEN Incomplete(inst, dyn, missing)
                   ELSE Result("ok", inst, dyn, <<>>, <<>>, None, FALSE, None),
                   NoInvocation)

Update ==
    \E method \in Methods : \E kwargs \in Overrides :
        \E res \in ResponseChoices(
                LAMBDA b : update(kind, inst, dyn, method, kwargs, b).r,
                "update_" \o method) :
            LET d == update(kind, inst, dyn, method, kwargs, res)
            IN  Finish("update", method, kwargs, <<>>, res, d.r, d.invoked)

Submit ==
    \E method \in Methods : \E kwargs \in Overrides :
        \E res \in ResponseChoices(
                LAMBDA b : submit(kind, inst, dyn, method, kwargs, b).r,
                "submit_" \o method) :
            LET d == submit(kind, inst, dyn, method, kwargs, res)
            IN  Finish("submit", method, kwargs, <<>>, res, d.r, d.invoked)

CallTopicUpdateGet ==
    /\ kind = "Topic"
    /\ \E res \in ResponseChoices(LAMBDA b : Topic_update_get(inst, dyn, b),
                                  "update_get") :
        Finish("Topic.update_get", NoMethod, EmptyKw, <<>>, res,
               Topic_update_get(inst, dyn, res), Direct("update_get", <<>>))

CallTopicGetPage ==
    /\ kind = "Topic"
    /\ \E page \in PageNumbers :
       \E res \in ResponseChoices(LAMBDA b : Topic_get_page(inst, dyn, page, b),
                                  "get_page") :
        Finish("Topic.get_page", NoMethod, EmptyKw, <<page>>, res,
               Topic_get_page(inst, dyn, page, res),
               Direct("get_page", <<page>>))

CallTopicGetSize ==
    /\ kind = "Topic"
    /\ Finish("Topic.get_size", NoMethod, EmptyKw, <<>>, None,
              Result("ok", inst, dyn, <<>>, <<>>, None, FALSE,
                     Topic_get_size(inst)),
              Direct("get_size", <<>>))

CallMessageSubmitPost ==
    /\ kind = "Message"
    /\ \E res \in ResponseChoices(LAMBDA b : Message_submit_post(inst, dyn, b),
                                  "submit_post") :
        Finish("Message.submit_post", NoMethod, EmptyKw, <<>>, res,
               Message_submit_post(inst, dyn, res), Direct("submit_post", <<>>))

CallMessageUpdateGet ==
    /\ kind = "Message"
    /\ \E res \in ResponseChoices(LAMBDA b : Message_update_get(inst, dyn, b),
                                  "update_get") :
        Finish("Message.update_get", NoMethod, EmptyKw, <<>>, res,
               Message_update_get(inst, dyn, res), Direct("update_get", <<>>))

CallMessageSubmitEdit ==
    /\ kind = "Message"
    /\ \E reason \in Reasons :
       \E res \in ResponseChoices(
               LAMBDA b : Message_submit_edit(inst, dyn, reason, b),
               "submit_edit") :
        Finish("Message.submit_edit", NoMethod, EmptyKw, <<reason>>, res,
               Message_submit_edit(inst, dyn, reason, res),
               Direct("submit_edit", <<reason>>))

CallMessageUpdateQuotefast ==
    /\ kind = "Message"
    /\ \E res \in ResponseChoices(
               LAMBDA b : Message_update_quotefast(inst, dyn, b),
               "update_quotefast") :
        Finish("Message.update_quotefast", NoMethod, EmptyKw, <<>>, res,
               Message_update_quotefast(inst, dyn, res),
               Direct("update_quotefast", <<>>))

Next ==
    \/ Construct
    \/ CallCheckFields
    \/ Update
    \/ Submit
    \/ CallTopicUpdateGet
    \/ CallTopicGetPage
    \/ CallTopicGetSize
    \/ CallMessageSubmitPost
    \/ CallMessageUpdateGet
    \/ CallMessageSubmitEdit
    \/ CallMessageUpdateQuotefast

Spec == Init /\ [][Next]_vars

(* ---------------------------------------------------------------------- *)
(* Notions used by the properties                                          *)
(* ---------------------------------------------------------------------- *)
Range(s) == {s[i] : i \in DOMAIN s}

IsDispatch == call.op \in {"update", "submit"}

\* the handler name the dispatcher derives from the call's method argument
MethodName ==
    IF call.op = "update"
    THEN "update_" \o (IF call.method = NoMethod THEN "get" ELSE call.method)
    ELSE "submit_" \o (IF call.method = NoMethod THEN "post" ELSE call.method)

\* the body of a handler was entered by the last call
BodyRan ==
    /\ out.invoked # NoInvocation
    /\ Len(out.invoked.args) <= Arity(out.invoked.name)

\* the instance's fields at the moment the handler was entered
FieldsAtEntry ==
    [f \in DOMAIN inst |->
        IF f \in DOMAIN call.kwargs /\ IsDispatch THEN call.kwargs[f]
        ELSE preInst[f]]

RequiredFields(k, name) ==
    CASE k = "Topic" /\ name \in {"update_get", "get_page"} -> {"tid"}
      [] k = "Message" /\ name = "submit_post" -> {"tid"}
      [] k = "Message" /\ name \in {"update_get", "update_quotefast"} -> {"mid"}
      [] k = "Message" /\ name = "submit_edit" -> {"mid", "tid"}
      [] OTHER -> {}

NetworkHandlers ==
    {"update_get", "get_page", "submit_post", "submit_edit",
     "update_quotefast"}

(* ---------------------------------------------------------------------- *)
(* Properties                                                              *)
(* ---------------------------------------------------------------------- *)

\* C1: whenever the body of a handler that requires identifying fields is
\* entered with one of its required fields absent, the call ends in
\* IncompleteError and has issued no request; hence a call that issued a
\* request had every required field present on entry.
C1_FieldCheckPrecedesRequest ==
    (BodyRan /\ out.invoked.name \in NetworkHandlers) =>
        LET req == RequiredFields(kind, out.invoked.name)
        IN  /\ (\E f \in req : FieldsAtEntry[f] = None) =>
                    (out.outcome = "IncompleteError" /\ out.requests = <<>>)
            /\ out.outcome = "IncompleteError" => out.requests = <<>>
            /\ out.requests # <<>> => \A f \in req : FieldsAtEntry[f] # None

C1_Witness ==
    /\ call.op = "Message.submit_edit"
    /\ preInst["mid"] # None
    /\ preInst["tid"] = None
    /\ out.outcome = "IncompleteError"
    /\ out.requests = <<>>

\* C2: check_fields raises IncompleteError exactly when a requested field
\* is absent, the names it carries are exactly the requested names whose
\* value is absent, and when none is absent it succeeds and leaves the
\* instance as it was.
C2_CheckFieldsExact ==
    call.op = "check_fields" =>
        LET absent == {n \in Range(call.args) : preInst[n] = None}
        IN  IF absent # {}
            THEN /\ out.outcome = "IncompleteError"
                 /\ Range(out.missing) = absent
                 /\ inst = preInst
            ELSE /\ out.outcome = "ok"
                 /\ out.missing = <<>>
                 /\ inst = preInst
                 /\ dyn = preDyn

C2_Witness ==
    /\ call.op = "check_fields"
    /\ Len(call.args) = 2
    /\ call.args[1] # call.args[2]
    /\ out.outcome = "IncompleteError"
    /\ Range(out.missing) = {call.args[1], call.args[2]}

\* C3 (as claimed): when update/submit resolves a handler, the declared-field
\* overrides are on the instance when the handler runs, the handler is
\* invoked with exactly the excess overrides as its arguments, and the call
\* does not fail in the dispatcher itself.
C3_Original ==
    (IsDispatch /\ MethodName \in dir(kind)) =>
        /\ out.invoked.name = MethodName
        /\ out.invoked.args = <<>>
        /\ out.invoked.kwargs = excess_kwargs(kind, call.kwargs)
        /\ out.outcome # "TypeError"

\* C4: an update/submit whose method names no handler of the variant fails
\* with NotImplementedError, invokes no handler and issues no request.
C4_NotImplementedNoRequest ==
    (IsDispatch /\ MethodName \notin dir(kind)) =>
        /\ out.outcome = "NotImplementedError"
        /\ out.requests = <<>>
        /\ out.invoked = NoInvocation

C4_Witness ==
    /\ kind = "Message"
    /\ call.op = "update"
    /\ call.method = "nope"
    /\ out.outcome = "NotImplementedError"
    /\ out.requests = <<>>

\* C5 (as claimed): update() without a method name on a Topic whose tid is
\* set issues one get_topic_page request for that tid at offset 0 and leaves
\* topic_name = name of the last hierarchy entry and pages = total_pages.
C5_Original ==
    (kind = "Topic" /\ call.op = "update" /\ call.method = NoMethod
        /\ FieldsAtEntry["tid"] # None) =>
        /\ out.requests =
              <<Request("get_topic_page", <<FieldsAtEntry["tid"], PyInt(0)>>)>>
        /\ parse_page(call.res).hierarchy # <<>> =>
              /\ inst["topic_name"] =
                    PyStr(Last(parse_page(call.res).hierarchy)[1])
              /\ inst["pages"] = PyInt(parse_page(call.res).total_pages)

\* C6 (as claimed): every handler that received a response whose body
\* encodes a forum-level error fails with RequestError and assigns nothing
\* to the entity.
C6_Original ==
    (BodyRan /\ out.invoked.name \in NetworkHandlers /\ out.requests # <<>>
        /\ check_errors(call.res)) =>
        /\ out.outcome = "RequestError"
        /\ inst = FieldsAtEntry
        /\ dyn = preDyn

\* C7: Message.update_get with mid set and a response that passes the error
\* check: without a record whose mid equals the message's mid it fails with
\* RequestError carrying the response; otherwise the instance is
\* reinitialized from the first such record and the message is returned.
C7_UpdateGetFindsFirst ==
    (call.op = "Message.update_get" /\ preInst["mid"] # None
        /\ ~check_errors(call.res)) =>
        LET cs == parse_page(call.res).contents
            hits == {i \in DOMAIN cs : cs[i]["mid"] = preInst["mid"]}
        IN  IF hits = {}
            THEN /\ out.outcome = "RequestError"
                 /\ out.response = call.res
                 /\ inst = preInst
            ELSE /\ out.outcome = "ok"
                 /\ out.ret = SelfRef
                 /\ \E i \in hits :
                       /\ \A j \in hits : i <= j
                       /\ inst = Message(cs[i])

C7_Witness ==
    /\ call.op = "Message.update_get"
    /\ out.outcome = "ok"
    /\ Len(parse_page(call.res).contents) = 2
    /\ \A i \in {1, 2} : parse_page(call.res).contents[i]["mid"] = preInst["mid"]
    /\ inst # preInst
    /\ inst["content"] = parse_page(call.res).contents[1]["content"]

\* C8: after every construction of a Message and after every successful
\* Message.update_get / Message.update_quotefast the user field is not a raw
\* mapping and the icon field is not a raw string: a raw mapping given for
\* user has become the User built from it, a raw string given for icon the
\* PostIcons value built from it.
C8_Source ==
    IF call.op = "construct" THEN call.kwargs
    ELSE IF call.op = "Message.update_quotefast"
    THEN parse_quotefast(call.res)
    ELSE Head(SelectSeq(parse_page(call.res).contents,
                        LAMBDA x : x["mid"] = preInst["mid"]))

C8_MessageNormalized ==
    (kind = "Message"
        /\ \/ call.op = "construct"
           \/ /\ call.op \in {"Message.update_get", "Message.update_quotefast"}
              /\ out.outcome = "ok") =>
        /\ inst["user"].t # "dict"
        /\ inst["icon"].t # "str"
        /\ ("user" \in DOMAIN C8_Source /\ C8_Source["user"].t = "dict") =>
              /\ inst["user"].t = "User"
              /\ \A f \in UserFields :
                    inst["user"].v[f] =
                       IF f \in DOMAIN C8_Source["user"].v
                       THEN C8_Source["user"].v[f] ELSE None
        /\ ("icon" \in DOMAIN C8_Source /\ C8_Source["icon"].t = "str") =>
              /\ inst["icon"].t = "PostIcons"
              /\ inst["icon"].v = C8_Source["icon"].v

C8_Witness ==
    /\ call.op = "Message.update_quotefast"
    /\ out.outcome = "ok"
    /\ "user" \in DOMAIN parse_quotefast(call.res)
    /\ parse_quotefast(call.res)["user"].t = "dict"
    /\ parse_quotefast(call.res)["icon"].t = "str"
    /\ inst["user"].t = "User"
    /\ inst["icon"].t = "PostIcons"

C10_OverridesSurviveFailure ==
    (IsDispatch /\ out.outcome \in {"NotImplementedError", "IncompleteError"}) =>
        /\ \A f \in fields(kind) :
              inst[f] = IF f \in DOMAIN call.kwargs THEN call.kwargs[f]
                        ELSE preInst[f]
        /\ dyn = preDyn

C10_Witness ==
    /\ IsDispatch
    /\ out.outcome = "NotImplementedError"
    /\ \E f \in DOMAIN call.kwargs \cap fields(kind) :
          /\ preInst[f] # call.kwargs[f]
          /\ inst[f] = call.kwargs[f]

====
